---- MODULE Spec2Model ----
(***************************************************************************)
(* Model of src/app.py: the BookGenerator provider layer (credential       *)
(* state, configure_apis, generate_content and its three provider          *)
(* variants, create_book_outline, generate_chapter) and the request        *)
(* handlers create_outline, generate_chapter and generate_full_book.       *)
(* The handlers share book_gen without a lock: a configure_apis call and a *)
(* generation request interleave freely, also while the request waits for  *)
(* its provider.  One generation request is followed; a generation request *)
(* writes nothing but its own locals, so the steps of any other one leave  *)
(* every variable here unchanged.                                          *)
(***************************************************************************)
EXTENDS Integers, Sequences, FiniteSets, TLC

(* ------------------------------ bounds -------------------------------- *)
\* largest num_chapters a request carries (above the demo cap of 3)
MaxChapters == 4
\* distinct short texts a provider may return
NumTexts == 2
\* outlines fed to generate_chapter in SpecTrunc are at most this much longer
\* than the 1000-character context window
MaxOverrun == 2

(* -------------------------- program constants ------------------------- *)
OutlineCap == 1000
ChapterTokens == 3000
DefaultTokens == 4000
DemoChapters == 3
DefaultNumChapters == 3
DefaultOutlineChapters == 10
DefaultChapterLength == 2000
\* num_chapters of the requests that race with configure_apis
RaceChapters == 1

(* ------------------------------ values -------------------------------- *)
\* Python None in a client field or module-level key
None == 0
\* a key that is not in the api_configs dict / the empty string
Absent == -2
Empty == -1
\* two API key strings: the one the requests of the sequential specification
\* carry, and a different one that replaces it
FirstKey == 1
SecondKey == 2
Keys == {FirstKey, SecondKey}
KeyInputs == {Absent, Empty} \cup Keys
\* the GenerativeModel('gemini-pro') object
GeminiPro == 1
\* no max_tokens is passed to the client
NoCap == -1
\* a dict key that the request body does not carry
NoValue == -1
Missing == "<missing>"

Providers == {"openai", "gemini", "anthropic"}
ProviderInputs == Providers \cup {"bogus", Missing}
ConfigKey(p) == CASE p = "openai" -> "openai_key"
                  [] p = "gemini" -> "gemini_key"
                  [] p = "anthropic" -> "anthropic_key"

Min(a, b) == IF a < b THEN a ELSE b

\* provider reply texts: short character sequences
Texts == {<<t>> : t \in 1..NumTexts}
Fail == <<-1>>
Replies == Texts \cup {Fail}

VARIABLES
    openai_client,     \* BookGenerator.openai_client: None or the key of the installed client
    genai_model,       \* BookGenerator.genai_model: None or GeminiPro
    anthropic_client,  \* BookGenerator.anthropic_client: None or the key of the installed client
    genai_api_key,     \* module global set by genai.configure
    cfg_pc,            \* position of the configure_apis call in flight
    api_configs,       \* its argument
    cfg_raised,        \* history: the provider whose install raised in it, or Missing
    genai_model_key,   \* history: the process-wide key when genai_model was assigned
    supplied,          \* history: providers a key was supplied for so far
    req_pc,            \* position of the generation request in flight
    req,               \* its JSON body and the endpoint it came to
    outline,           \* generate_full_book: local outline
    chapters,          \* generate_full_book: local chapters
    num_chapters,      \* generate_full_book: local num_chapters
    i,                 \* generate_full_book: loop variable i (0 while unbound)
    prompt,            \* the last prompt rendered
    calls,             \* history: provider client invocations of this request
    pauses,            \* history: time.sleep(1) calls of this request
    logged,            \* logger.error lines of this request
    exc,               \* exception that ended this request, or "None"
    resp,              \* response of the last generation request
    hadFailure         \* history: some earlier generation request failed

credVars == <<openai_client, genai_model, anthropic_client, genai_api_key>>
cfgVars == <<cfg_pc, api_configs, cfg_raised, genai_model_key, supplied>>
reqVars == <<req_pc, req, outline, chapters, num_chapters, i, prompt, calls,
             pauses, logged, exc, resp, hadFailure>>
vars == <<credVars, cfgVars, reqVars>>

Clients == [anthropic |-> anthropic_client, gemini |-> genai_model, openai |-> openai_client]

\* the credential state as one value, with the history of the model object
Fields == [openai_client |-> openai_client, genai_model |-> genai_model,
           anthropic_client |-> anthropic_client, genai_api_key |-> genai_api_key,
           genai_model_key |-> genai_model_key]
SetFields(f) ==
    /\ openai_client' = f.openai_client
    /\ genai_model' = f.genai_model
    /\ anthropic_client' = f.anthropic_client
    /\ genai_api_key' = f.genai_api_key
    /\ genai_model_key' = f.genai_model_key

NoResp == [pending |-> TRUE]
NoReq == [endpoint |-> "none"]
NoPrompt == [kind |-> "none"]
NoConfigs == [anthropic_key |-> Absent, gemini_key |-> Absent, openai_key |-> Absent]

Init ==
    /\ openai_client = None
    /\ genai_model = None
    /\ anthropic_client = None
    /\ genai_api_key = None
    /\ cfg_pc = "idle"
    /\ api_configs = NoConfigs
    /\ cfg_raised = Missing
    /\ genai_model_key = None
    /\ supplied = {}
    /\ req_pc = "idle"
    /\ req = NoReq
    /\ outline = <<>>
    /\ chapters = <<>>
    /\ num_chapters = 0
    /\ i = 0
    /\ prompt = NoPrompt
    /\ calls = <<>>
    /\ pauses = 0
    /\ logged = <<>>
    /\ exc = "None"
    /\ resp = NoResp
    /\ hadFailure = FALSE

\* the handler's locals and the request's history are dropped on return
ForgetRequest ==
    /\ req' = NoReq
    /\ outline' = <<>>
    /\ chapters' = <<>>
    /\ num_chapters' = 0
    /\ i' = 0
    /\ prompt' = NoPrompt
    /\ calls' = <<>>
    /\ pauses' = 0
    /\ logged' = <<>>
    /\ exc' = "None"
    /\ resp' = NoResp
    /\ UNCHANGED hadFailure

(* --------------------------- configure_apis --------------------------- *)
\* `if api_configs.get(k):` -- an absent key and an empty string are falsy
TruthyAsPresent(configs, k) == configs[k] # Absent
Truthy(configs, k) == configs[k] # Absent /\ configs[k] # Empty

\* where control goes when a statement inside the try block raises
ConfigureAfterRaise == "except"

\* one block of configure_apis run on the credential state f: the state it
\* leaves, the position it goes to and the provider whose install raised
Moved(f, next) == [fields |-> f, next |-> next, raised |-> Missing]
Aborted(f, provider) == [fields |-> f, next |-> ConfigureAfterRaise, raised |-> provider]

\* lines 38-41; line 39 sets the SDK's module attribute openai.api_key, which
\* nothing in the program reads (the client of line 40 carries its own key)
InstallOpenAI(f, configs, raises) ==
    IF ~Truthy(configs, "openai_key") THEN Moved(f, "gemini")
    ELSE IF raises THEN Aborted(f, "openai")
    ELSE Moved([f EXCEPT !.openai_client = configs.openai_key], "gemini")

\* lines 43-44
InstallGeminiKey(f, configs, raises) ==
    IF ~Truthy(configs, "gemini_key") THEN Moved(f, "anthropic")
    ELSE IF raises THEN Aborted(f, "gemini")
    ELSE Moved([f EXCEPT !.genai_api_key = configs.gemini_key], "gemini_model")

\* lines 45-46
InstallGeminiModel(f, configs, raises) ==
    IF raises THEN Aborted(f, "gemini")
    ELSE Moved([f EXCEPT !.genai_model = GeminiPro,
                         !.genai_model_key = f.genai_api_key], "anthropic")

\* lines 48-50
InstallAnthropic(f, configs, raises) ==
    IF ~Truthy(configs, "anthropic_key") THEN Moved(f, "return")
    ELSE IF raises THEN Aborted(f, "anthropic")
    ELSE Moved([f EXCEPT !.anthropic_client = configs.anthropic_key], "return")

\* the providers a call with these api_configs supplies a key for
SuppliedBy(configs) == {p \in Providers : configs[ConfigKey(p)] \in Keys}

\* the statements of the try block that run for these api_configs and so can raise
RaisePoints(configs) ==
    {"none"}
    \cup (IF Truthy(configs, "openai_key") THEN {"openai"} ELSE {})
    \cup (IF Truthy(configs, "gemini_key") THEN {"gemini", "gemini_model"} ELSE {})
    \cup (IF Truthy(configs, "anthropic_key") THEN {"anthropic"} ELSE {})

\* lines 35-55: the whole call; `raise_at` is the block that raises, if any
configure_apis(f, configs, raise_at) ==
    LET r1 == InstallOpenAI(f, configs, raise_at = "openai")
        r2 == IF r1.next = "gemini"
              THEN InstallGeminiKey(r1.fields, configs, raise_at = "gemini") ELSE r1
        r3 == IF r2.next = "gemini_model"
              THEN InstallGeminiModel(r2.fields, configs, raise_at = "gemini_model") ELSE r2
    IN IF r3.next = "anthropic"
       THEN InstallAnthropic(r3.fields, configs, raise_at = "anthropic") ELSE r3

AllConfigs == [anthropic_key : KeyInputs, gemini_key : KeyInputs, openai_key : KeyInputs]
\* request bodies that carry at most one of the three keys, empty or FirstKey
OneKeyConfigs ==
    {c \in AllConfigs :
        /\ Cardinality({p \in Providers : c[ConfigKey(p)] # Absent}) <= 1
        /\ \A p \in Providers : c[ConfigKey(p)] \in {Absent, Empty, FirstKey}}

\* POST /configure-apis (or the start-up auto-configuration from the
\* environment), lines 179-194: a whole configure_apis call, which may run at
\* any point of a generation request
ConfigureApisWith(bodies) ==
    \E configs \in bodies :
        \E raise_at \in RaisePoints(configs) :
            /\ SetFields(configure_apis(Fields, configs, raise_at).fields)
            /\ supplied' = supplied \cup SuppliedBy(configs)
            /\ UNCHANGED <<cfg_pc, api_configs, cfg_raised, reqVars>>

ConfigureApis == ConfigureApisWith(OneKeyConfigs)

\* the same call statement by statement, for the interleavings inside it
ConfigureStartWith(bodies) ==
    /\ cfg_pc = "idle"
    /\ \E configs \in bodies :
        /\ api_configs' = configs
        /\ supplied' = supplied \cup SuppliedBy(configs)
    /\ cfg_raised' = Missing
    /\ cfg_pc' = "openai"
    /\ UNCHANGED <<credVars, genai_model_key, reqVars>>

\* the block at position cfg_pc runs
ConfigureBlock(r) ==
    /\ SetFields(r.fields)
    /\ cfg_pc' = r.next
    /\ cfg_raised' = r.raised
    /\ UNCHANGED <<api_configs, supplied, reqVars>>

ConfigureOpenAI ==
    /\ cfg_pc = "openai"
    /\ \E raises \in BOOLEAN : ConfigureBlock(InstallOpenAI(Fields, api_configs, raises))

ConfigureGeminiKey ==
    /\ cfg_pc = "gemini"
    /\ \E raises \in BOOLEAN : ConfigureBlock(InstallGeminiKey(Fields, api_configs, raises))

ConfigureGeminiModel ==
    /\ cfg_pc = "gemini_model"
    /\ \E raises \in BOOLEAN : ConfigureBlock(InstallGeminiModel(Fields, api_configs, raises))

ConfigureAnthropic ==
    /\ cfg_pc = "anthropic"
    /\ \E raises \in BOOLEAN : ConfigureBlock(InstallAnthropic(Fields, api_configs, raises))

\* line 52, then lines 186-189 of the handler
ConfigureReturn ==
    /\ cfg_pc = "return"
    /\ cfg_pc' = "idle"
    /\ api_configs' = NoConfigs
    /\ cfg_raised' = Missing
    /\ UNCHANGED <<credVars, genai_model_key, supplied, reqVars>>

\* lines 53-55, then lines 190-191 of the handler
ConfigureExcept ==
    /\ cfg_pc = "except"
    /\ cfg_pc' = "idle"
    /\ api_configs' = NoConfigs
    /\ cfg_raised' = Missing
    /\ UNCHANGED <<credVars, genai_model_key, supplied, reqVars>>

(* ------------------------- provider variants -------------------------- *)
\* a generate_* call up to the point where it waits for the provider: the
\* exception raised before any client was invoked ("None" otherwise), the
\* client invocation made and the logger.error lines the variant wrote
Invoked(call) ==
    [exc |-> "None", invoked |-> TRUE, calls |-> <<call>>, logged |-> <<>>]
Raised(e, log_seq) ==
    [exc |-> e, invoked |-> FALSE, calls |-> <<>>, logged |-> log_seq]

\* attribute access on a client field that is None (lines 60, 77, 86), caught
\* by the variant's own except clause, logged and re-raised (lines 70-72)
NoneDereference(provider) ==
    Raised("AttributeError", <<[line |-> "api_error", by |-> provider]>>)

\* lines 57-68: the client field is read and the client is invoked
generate_with_openai(prmpt, max_tokens) ==
    IF openai_client = None
    THEN NoneDereference("openai")
    ELSE Invoked([provider |-> "openai", model |-> "gpt-4", key |-> openai_client,
                  installed_key |-> openai_client, max_tokens |-> max_tokens,
                  prompt |-> prmpt])

\* lines 74-77: no max_tokens parameter; the model object carries no key, the
\* key is the one genai.configure installed process-wide, which need not be
\* the one the model object was installed under
generate_with_gemini(prmpt) ==
    IF genai_model = None
    THEN NoneDereference("gemini")
    ELSE Invoked([provider |-> "gemini", model |-> "gemini-pro", key |-> genai_api_key,
                  installed_key |-> genai_model_key, max_tokens |-> NoCap,
                  prompt |-> prmpt])

\* lines 83-93
generate_with_anthropic(prmpt, max_tokens) ==
    IF anthropic_client = None
    THEN NoneDereference("anthropic")
    ELSE Invoked([provider |-> "anthropic", model |-> "claude-3-sonnet-20240229",
                  key |-> anthropic_client, installed_key |-> anthropic_client,
                  max_tokens |-> max_tokens, prompt |-> prmpt])

\* lines 99-108
generate_content(provider, prmpt, max_tokens) ==
    IF provider = "openai" THEN generate_with_openai(prmpt, max_tokens)
    ELSE IF provider = "gemini" THEN generate_with_gemini(prmpt)
    ELSE IF provider = "anthropic" THEN generate_with_anthropic(prmpt, max_tokens)
    ELSE Raised("ValueError", <<>>)

\* the rest of a generate_* call once the provider answers (lines 69-72,
\* 78-81, 94-97): the text is returned, or the failure is logged and re-raised
ProviderReturn(provider, reply) ==
    IF reply = Fail
    THEN [exc |-> "ProviderError", text |-> <<>>,
          logged |-> <<[line |-> "api_error", by |-> provider]>>]
    ELSE [exc |-> "None", text |-> reply, logged |-> <<>>]

(* ------------------------------ prompts ------------------------------- *)
\* book_data as the request carries it.  keys: "complete" has title, genre,
\* target_audience, theme and length; "no_length" lacks length; "incomplete"
\* lacks title
SparseBook(keys) == [chapter_length |-> NoValue, keys |-> keys, num_chapters |-> NoValue]
BookInputs(chapter_counts, chapter_lengths) ==
    {SparseBook("incomplete"), SparseBook("no_length")}
    \cup [chapter_length : chapter_lengths, keys : {"complete"},
          num_chapters : chapter_counts]
ChapterCounts == {NoValue} \cup 0..MaxChapters
ChapterLengths == {NoValue, 5000}
NoBook == SparseBook(Missing)

\* chapter_info as the request carries it: with number, title and
\* description, or with number alone
ChapterInfoInputs == [keys : {"complete", "number_only"}, number : {7}]
NoChapterInfo == [keys |-> Missing, number |-> NoValue]
\* a request body without the optional outline
NoOutline == <<NoValue>>

\* dict.get(key, default)
Get(value, default) == IF value = NoValue THEN default ELSE value

\* the slice taken one character short
ShortTruncate(text) == SubSeq(text, 1, Min(Len(text), OutlineCap - 1))

\* outline[:1000], line 151
Truncate(text) == SubSeq(text, 1, Min(Len(text), OutlineCap))

\* a KeyError raised before any prompt is complete
KeyErrorResult == Raised("KeyError", <<>>) @@ [prompt |-> NoPrompt, given |-> NoValue]

\* lines 110-133: the template indexes title, genre, target_audience, theme
\* and length
create_book_outline(provider, book_data) ==
    IF book_data.keys # "complete"
    THEN KeyErrorResult
    ELSE LET prmpt == [kind |-> "outline", number |-> 0, context |-> <<>>,
                       chapter_length |-> 0,
                       num_chapters |-> Get(book_data.num_chapters, DefaultOutlineChapters)]
         IN generate_content(provider, prmpt, DefaultTokens)
                @@ [prompt |-> prmpt, given |-> DefaultTokens]

\* lines 135-157: the template indexes number, title and description of
\* chapter_info and title, genre, target_audience and theme of book_data
generate_chapter(provider, book_data, chapter_info, outline_text) ==
    IF chapter_info.keys # "complete" \/ book_data.keys \notin {"complete", "no_length"}
    THEN KeyErrorResult
    ELSE LET prmpt == [kind |-> "chapter", number |-> chapter_info.number,
                       context |-> Truncate(outline_text),
                       chapter_length |-> Get(book_data.chapter_length, DefaultChapterLength),
                       num_chapters |-> 0]
         IN generate_content(provider, prmpt, ChapterTokens)
                @@ [prompt |-> prmpt, given |-> ChapterTokens]

(* -------------------------- request handlers -------------------------- *)
\* `except Exception` of a handler (lines 212, 235, 280) catches every kind
CatchesProviderErrorsOnly(e) == e = "ProviderError"
HandlerCatches(e) == TRUE

\* lines 213, 236, 281: the except clause logs the error first
HandlerLog(e, endpoint) ==
    IF HandlerCatches(e) THEN <<[line |-> "handler_error", by |-> endpoint]>> ELSE <<>>

\* lines 214, 237, 282; an exception the handler does not catch leaves the
\* request without a structured response
ErrorResponse(e) ==
    IF HandlerCatches(e) THEN [success |-> FALSE, message |-> e] ELSE [unhandled |-> e]

\* the client invocation of a call, as the request's history keeps it; ok
\* turns true when the provider has answered with a text
Journal(r, provider) ==
    [k \in 1..Len(r.calls) |->
        r.calls[k] @@ [given |-> r.given, requested |-> provider, ok |-> FALSE]]

\* a generation request enters its handler
Accept(data) ==
    /\ req_pc = "idle"
    /\ req' = data

\* the handler up to its provider call: it fails before any client is
\* invoked and answers from its except clause, or it has invoked the client
\* and waits for the reply at position `waiting`
CallProvider(r, provider, endpoint, waiting) ==
    /\ prompt' = r.prompt
    /\ calls' = calls \o Journal(r, provider)
    /\ IF r.invoked
       THEN /\ req_pc' = waiting
            /\ UNCHANGED <<exc, resp, logged, hadFailure>>
       ELSE /\ exc' = r.exc
            /\ resp' = ErrorResponse(r.exc)
            /\ logged' = logged \o r.logged \o HandlerLog(r.exc, endpoint)
            /\ hadFailure' = TRUE
            /\ req_pc' = "done"

\* the provider that was invoked last and the call marked as answered
LastProvider == calls[Len(calls)].provider
Answered == [calls EXCEPT ![Len(calls)].ok = TRUE]

\* POST /create-outline, lines 196-204, up to the provider call
CreateOutlineWith(providers, books) ==
    \E provider \in providers, book_data \in books :
        LET data == [endpoint |-> "create-outline", provider |-> provider,
                     book_data |-> book_data, chapter_info |-> NoChapterInfo,
                     outline |-> NoOutline]
            r == IF provider = Missing \/ book_data = NoBook
                 THEN KeyErrorResult
                 ELSE create_book_outline(provider, book_data)
        IN /\ Accept(data)
           /\ CallProvider(r, provider, "create-outline", "wait")
           /\ UNCHANGED <<credVars, cfgVars, outline, chapters, num_chapters, i, pauses>>

CreateOutline ==
    CreateOutlineWith(ProviderInputs, BookInputs(ChapterCounts, {NoValue}) \cup {NoBook})

\* POST /create-outline, lines 204-214, from the provider's answer on
CreateOutlineReplyWith(replies) ==
    /\ req_pc = "wait"
    /\ req.endpoint = "create-outline"
    /\ \E reply \in replies :
        LET r == ProviderReturn(LastProvider, reply)
        IN /\ exc' = r.exc
           /\ IF r.exc = "None"
              THEN /\ resp' = [success |-> TRUE, outline |-> r.text]
                   /\ calls' = Answered
                   /\ logged' = logged \o r.logged
                   /\ UNCHANGED hadFailure
              ELSE /\ resp' = ErrorResponse(r.exc)
                   /\ logged' = logged \o r.logged \o HandlerLog(r.exc, "create-outline")
                   /\ hadFailure' = TRUE
                   /\ UNCHANGED calls
    /\ req_pc' = "done"
    /\ UNCHANGED <<credVars, cfgVars, req, outline, chapters, num_chapters, i, prompt,
                   pauses>>

CreateOutlineReply == CreateOutlineReplyWith(Replies)

\* POST /generate-chapter, lines 216-227, up to the provider call
GenerateChapterWith(providers, books, chapter_infos, outlines) ==
    \E provider \in providers, book_data \in books, chapter_info \in chapter_infos,
       outline_in \in outlines :
        LET data == [endpoint |-> "generate-chapter", provider |-> provider,
                     book_data |-> book_data, chapter_info |-> chapter_info,
                     outline |-> outline_in]
            outline_text == IF outline_in = NoOutline THEN <<>> ELSE outline_in
            r == IF provider = Missing \/ book_data = NoBook \/ chapter_info = NoChapterInfo
                 THEN KeyErrorResult
                 ELSE generate_chapter(provider, book_data, chapter_info, outline_text)
        IN /\ Accept(data)
           /\ CallProvider(r, provider, "generate-chapter", "wait")
           /\ UNCHANGED <<credVars, cfgVars, outline, chapters, num_chapters, i, pauses>>

GenerateChapter ==
    GenerateChapterWith(ProviderInputs, BookInputs({NoValue}, ChapterLengths) \cup {NoBook},
                        ChapterInfoInputs \cup {NoChapterInfo}, Texts \cup {NoOutline})

\* POST /generate-chapter, lines 227-237, from the provider's answer on
GenerateChapterReplyWith(replies) ==
    /\ req_pc = "wait"
    /\ req.endpoint = "generate-chapter"
    /\ \E reply \in replies :
        LET r == ProviderReturn(LastProvider, reply)
        IN /\ exc' = r.exc
           /\ IF r.exc = "None"
              THEN /\ resp' = [success |-> TRUE, content |-> r.text,
                               chapter_number |-> req.chapter_info.number]
                   /\ calls' = Answered
                   /\ logged' = logged \o r.logged
                   /\ UNCHANGED hadFailure
              ELSE /\ resp' = ErrorResponse(r.exc)
                   /\ logged' = logged \o r.logged \o HandlerLog(r.exc, "generate-chapter")
                   /\ hadFailure' = TRUE
                   /\ UNCHANGED calls
    /\ req_pc' = "done"
    /\ UNCHANGED <<credVars, cfgVars, req, outline, chapters, num_chapters, i, prompt,
                   pauses>>

GenerateChapterReply == GenerateChapterReplyWith(Replies)

\* POST /generate-full-book, lines 239-282
ChapterCountUncapped(book_data) == Get(book_data.num_chapters, DefaultNumChapters)

\* line 253
ChapterCount(book_data) ==
    Min(DemoChapters, Get(book_data.num_chapters, DefaultNumChapters))

\* where control goes when a call inside the try block raises: to the except
\* clause of the handler (line 280); `at` is the position of the call
RetryAfterRaise(at) == at
FullBookAfterRaise(at) == "except"

\* lines 243-248: the body is read and the provider is called for the outline
FullBookStartWith(providers, books) ==
    \E provider \in providers, book_data \in books :
        LET data == [endpoint |-> "generate-full-book", provider |-> provider,
                     book_data |-> book_data, chapter_info |-> NoChapterInfo,
                     outline |-> NoOutline]
            r == IF provider = Missing \/ book_data = NoBook
                 THEN KeyErrorResult
                 ELSE create_book_outline(provider, book_data)
        IN /\ Accept(data)
           /\ CallProvider(r, provider, "generate-full-book", "outline_wait")
           /\ UNCHANGED <<credVars, cfgVars, outline, chapters, num_chapters, i, pauses>>

FullBookStart ==
    FullBookStartWith(ProviderInputs, BookInputs(ChapterCounts, {NoValue}) \cup {NoBook})

\* lines 248-253: the outline arrives and the loop is set up
FullBookOutlineReplyWith(replies) ==
    /\ req_pc = "outline_wait"
    /\ \E reply \in replies :
        LET r == ProviderReturn(LastProvider, reply)
        IN /\ exc' = r.exc
           /\ IF r.exc = "None"
              THEN /\ outline' = r.text
                   /\ num_chapters' = ChapterCount(req.book_data)
                   /\ calls' = Answered
                   /\ logged' = logged \o r.logged
                   /\ req_pc' = "loop"
                   /\ UNCHANGED <<resp, hadFailure>>
              ELSE /\ resp' = ErrorResponse(r.exc)
                   /\ logged' = logged \o r.logged \o HandlerLog(r.exc, "generate-full-book")
                   /\ hadFailure' = TRUE
                   /\ req_pc' = "done"
                   /\ UNCHANGED <<outline, num_chapters, calls>>
    /\ UNCHANGED <<credVars, cfgVars, req, chapters, i, prompt, pauses>>

FullBookOutlineReply == FullBookOutlineReplyWith(Replies)

\* lines 255-262: the loop variable takes its next value and the provider is
\* called for the chapter
FullBookChapter ==
    /\ req_pc = "loop"
    /\ i < num_chapters
    /\ i' = i + 1
    /\ LET chapter_info == [keys |-> "complete", number |-> i + 1]
           r == generate_chapter(req.provider, req.book_data, chapter_info, outline)
       IN CallProvider(r, req.provider, "generate-full-book", "chapter_wait")
    /\ UNCHANGED <<credVars, cfgVars, req, outline, chapters, num_chapters, pauses>>

\* lines 262-267: the chapter arrives and is appended
FullBookChapterReplyWith(replies) ==
    /\ req_pc = "chapter_wait"
    /\ \E reply \in replies :
        LET r == ProviderReturn(LastProvider, reply)
        IN /\ exc' = r.exc
           /\ IF r.exc = "None"
              THEN /\ chapters' = Append(chapters,
                           [number |-> i, title |-> <<"Chapter", i>>, content |-> r.text])
                   /\ calls' = Answered
                   /\ logged' = logged \o r.logged
                   /\ req_pc' = "sleep"
                   /\ UNCHANGED <<resp, hadFailure>>
              ELSE IF FullBookAfterRaise("loop") = "except"
              THEN /\ resp' = ErrorResponse(r.exc)
                   /\ logged' = logged \o r.logged \o HandlerLog(r.exc, "generate-full-book")
                   /\ hadFailure' = TRUE
                   /\ req_pc' = "done"
                   /\ UNCHANGED <<chapters, calls>>
              ELSE /\ req_pc' = FullBookAfterRaise("loop")
                   /\ logged' = logged \o r.logged
                   /\ UNCHANGED <<chapters, calls, resp, hadFailure>>
    /\ UNCHANGED <<credVars, cfgVars, req, outline, num_chapters, i, prompt, pauses>>

FullBookChapterReply == FullBookChapterReplyWith(Replies)

\* lines 269-270
FullBookSleep ==
    /\ req_pc = "sleep"
    /\ pauses' = pauses + 1
    /\ req_pc' = "loop"
    /\ UNCHANGED <<credVars, cfgVars, req, outline, chapters, num_chapters, i, prompt,
                   calls, logged, exc, resp, hadFailure>>

\* lines 272-278: the range is exhausted
FullBookReturn ==
    /\ req_pc = "loop"
    /\ i >= num_chapters
    /\ resp' = [success |-> TRUE, outline |-> outline, chapters |-> chapters,
                total_chapters |-> Len(chapters)]
    /\ req_pc' = "done"
    /\ UNCHANGED <<credVars, cfgVars, req, outline, chapters, num_chapters, i,
                   prompt, calls, pauses, logged, exc, hadFailure>>

\* `return jsonify(...)`: the response leaves the handler
Respond ==
    /\ req_pc = "done"
    /\ req_pc' = "idle"
    /\ ForgetRequest
    /\ UNCHANGED <<credVars, cfgVars>>

Next ==
    \/ ConfigureApis
    \/ CreateOutline
    \/ CreateOutlineReply
    \/ GenerateChapter
    \/ GenerateChapterReply
    \/ FullBookStart
    \/ FullBookOutlineReply
    \/ FullBookChapter
    \/ FullBookChapterReply
    \/ FullBookSleep
    \/ FullBookReturn
    \/ Respond

Spec == Init /\ [][Next]_vars

(* ------------ configure_apis statement by statement, racing ----------- *)
\* a generation request or a second configure_apis call is served while a
\* configure_apis call is between two of its statements, or while the request
\* waits for its provider.
\* The bodies: one key alone; an OpenAI and a Gemini key, of which the first
\* install may fail; an empty OpenAI key with an Anthropic key.  The OpenAI
\* and Gemini keys range over Keys, so that a credential can be replaced by a
\* different one
RaceConfigs ==
    {c \in AllConfigs :
        /\ c.anthropic_key \in {Absent, FirstKey}
        /\ \/ /\ Cardinality({p \in Providers : c[ConfigKey(p)] # Absent}) = 1
              /\ \E p \in Providers : c[ConfigKey(p)] \in Keys
           \/ c.openai_key \in Keys /\ c.gemini_key = c.openai_key /\ c.anthropic_key = Absent
           \/ c.openai_key = Empty /\ c.gemini_key = Absent /\ c.anthropic_key = FirstKey}
ConfigureStart == ConfigureStartWith(RaceConfigs)

\* a second POST /configure-apis served by another thread, from its first
\* statement to its last, at any point of the call that is followed statement
\* by statement and of the generation request
ConfigureOverlapping ==
    ConfigureApisWith({c \in RaceConfigs :
                          Cardinality({p \in Providers : c[ConfigKey(p)] # Absent}) = 1})

RaceBooks == {[chapter_length |-> NoValue, keys |-> "complete", num_chapters |-> n] :
                n \in {RaceChapters}}
CreateOutlineRacing == CreateOutlineWith(Providers, RaceBooks)
GenerateChapterRacing ==
    GenerateChapterWith(Providers, RaceBooks, {[keys |-> "complete", number |-> 7]},
                        {NoOutline})
FullBookStartRacing == FullBookStartWith(Providers, RaceBooks)
\* the provider answers with one text, or fails
RaceReplies == {CHOOSE t \in Texts : TRUE, Fail}
CreateOutlineReplyRacing == CreateOutlineReplyWith(RaceReplies)
GenerateChapterReplyRacing == GenerateChapterReplyWith(RaceReplies)
FullBookOutlineReplyRacing == FullBookOutlineReplyWith(RaceReplies)
FullBookChapterReplyRacing == FullBookChapterReplyWith(RaceReplies)

NextRace ==
    \/ ConfigureStart
    \/ ConfigureOverlapping
    \/ ConfigureOpenAI
    \/ ConfigureGeminiKey
    \/ ConfigureGeminiModel
    \/ ConfigureAnthropic
    \/ ConfigureReturn
    \/ ConfigureExcept
    \/ CreateOutlineRacing
    \/ CreateOutlineReplyRacing
    \/ GenerateChapterRacing
    \/ GenerateChapterReplyRacing
    \/ FullBookStartRacing
    \/ FullBookOutlineReplyRacing
    \/ FullBookChapter
    \/ FullBookChapterReplyRacing
    \/ FullBookSleep
    \/ FullBookReturn
    \/ Respond

SpecRace == Init /\ [][NextRace]_vars

(* ------------- generate_chapter on outlines around the cap ------------ *)
\* a text of n characters
Text(n, s) == [j \in 1..n |-> ((j * s) % 5) + 1]
TruncLens == (0..MaxOverrun) \cup ((OutlineCap - MaxOverrun)..(OutlineCap + MaxOverrun))
LongOutlines == {Text(n, s) : n \in TruncLens, s \in 1..NumTexts}

\* the process after the start-up auto-configuration (lines 162-173) with
\* OPENAI_API_KEY set in the environment
InitTrunc ==
    /\ openai_client = FirstKey
    /\ genai_model = None
    /\ anthropic_client = None
    /\ genai_api_key = None
    /\ cfg_pc = "idle"
    /\ api_configs = NoConfigs
    /\ cfg_raised = Missing
    /\ genai_model_key = None
    /\ supplied = {"openai"}
    /\ req_pc = "idle"
    /\ req = NoReq
    /\ outline = <<>>
    /\ chapters = <<>>
    /\ num_chapters = 0
    /\ i = 0
    /\ prompt = NoPrompt
    /\ calls = <<>>
    /\ pauses = 0
    /\ logged = <<>>
    /\ exc = "None"
    /\ resp = NoResp
    /\ hadFailure = FALSE

\* the caller passes an outline, or the context a previous prompt embedded
GenerateChapterLong ==
    GenerateChapterWith(ProviderInputs,
                        BookInputs({NoValue}, ChapterLengths) \cup {NoBook},
                        ChapterInfoInputs \cup {NoChapterInfo},
                        LongOutlines \cup {Truncate(o) : o \in LongOutlines} \cup {NoOutline})

NextTrunc ==
    \/ GenerateChapterLong
    \/ GenerateChapterReply
    \/ Respond

SpecTrunc == InitTrunc /\ [][NextTrunc]_vars

(* ------------------------------ claims -------------------------------- *)
IsPrefix(a, b) == Len(a) <= Len(b) /\ \A j \in 1..Len(a) : a[j] = b[j]
OutlineGiven == IF req.outline = NoOutline THEN <<>> ELSE req.outline

\* C1: a generate call for one of the three providers made while that provider
\* has no credential (the prompt was rendered, no client was invoked and no
\* provider was asked) fails with a NotConfigured error, not with the error
\* path of a provider/transport failure.
C1_NotConfiguredIsDistinct ==
    (/\ req_pc = "done"
     /\ req.provider \in Providers
     /\ prompt # NoPrompt
     /\ calls = <<>>)
    => /\ exc = "NotConfigured"
       /\ \A k \in DOMAIN logged : logged[k].line # "api_error"

\* C2: when installing one provider's credential fails in configure_apis,
\* every other provider whose key was supplied is configured after the call.
C2_ConfigureIndependent ==
    cfg_pc = "except" =>
        \A p \in Providers \ {cfg_raised} :
            api_configs[ConfigKey(p)] \in Keys => Clients[p] # None

\* C3: generate_full_book pauses one time fewer than it generated chapters.
C3_PausesBetweenChapters ==
    (/\ req_pc = "done"
     /\ req.endpoint = "generate-full-book"
     /\ exc = "None"
     /\ Len(chapters) >= 1)
    => pauses = Len(chapters) - 1

\* C4: with a provider that never fails and num_chapters >= 0,
\* generate_full_book makes 1 + min(3, num_chapters) client invocations: the
\* outline first, then chapters 1..min(3, num_chapters) in ascending order,
\* each with the returned outline as context; the response lists those
\* chapters in order and total_chapters is min(3, num_chapters).
C4_FullBookCalls ==
    (/\ req_pc = "done"
     /\ req.endpoint = "generate-full-book"
     /\ exc = "None"
     /\ req.book_data.num_chapters >= 0)
    => LET n == Min(3, req.book_data.num_chapters)
       IN /\ Len(calls) = 1 + n
          /\ calls[1].prompt.kind = "outline"
          /\ resp.success
          /\ resp.total_chapters = n
          /\ Len(resp.chapters) = n
          /\ \A k \in 1..n :
                /\ calls[k + 1].prompt.kind = "chapter"
                /\ calls[k + 1].prompt.number = k
                /\ IsPrefix(calls[k + 1].prompt.context, resp.outline)
                /\ Len(calls[k + 1].prompt.context) = Min(Len(resp.outline), 1000)
                /\ resp.chapters[k].number = k
                /\ resp.chapters[k].title = <<"Chapter", k>>

C4_Witness ==
    /\ req_pc = "done"
    /\ req.endpoint = "generate-full-book"
    /\ exc = "None"
    /\ req.book_data.num_chapters = MaxChapters
    /\ Len(calls) = 1 + 3
    /\ resp.total_chapters = 3

\* C5: every failure inside a generation handler (missing key, unsupported
\* provider, provider not configured, provider failure) ends the request with
\* the structured response {success: false, message}, and a request after
\* failed ones is served.
C5_FailuresAreStructured ==
    req_pc = "done" =>
        /\ "success" \in DOMAIN resp
        /\ exc # "None" => resp = [success |-> FALSE, message |-> exc]
        /\ exc = "None" => resp.success
        /\ exc \in {"None", "KeyError", "ValueError", "AttributeError", "ProviderError"}

C5_Witness ==
    /\ req_pc = "done"
    /\ hadFailure
    /\ exc = "None"
    /\ resp.success
    /\ Len(calls) >= 1

\* C6: the outline context of a chapter prompt is the prefix of the supplied
\* outline of length min(len(outline), 1000); truncating it again changes
\* nothing.
C6_OutlineContextIsPrefix ==
    (req.endpoint = "generate-chapter" /\ prompt.kind = "chapter") =>
        /\ Len(prompt.context) <= 1000
        /\ Len(prompt.context) = Min(Len(OutlineGiven), 1000)
        /\ IsPrefix(prompt.context, OutlineGiven)
        /\ Len(OutlineGiven) <= 1000 => prompt.context = OutlineGiven
        /\ Truncate(prompt.context) = prompt.context

C6_Witness ==
    /\ req_pc = "done"
    /\ req.endpoint = "generate-chapter"
    /\ Len(OutlineGiven) > 1000
    /\ Len(calls) = 1
    /\ Len(calls[1].prompt.context) = 1000

\* C7: every client invocation carries the cap handed to generate_content:
\* 3000 for a chapter, 4000 for an outline, for each of the three providers.
C7_CapReachesClient ==
    \A k \in DOMAIN calls :
        /\ calls[k].given = (IF calls[k].prompt.kind = "chapter" THEN 3000 ELSE 4000)
        /\ calls[k].max_tokens = calls[k].given

\* C8: in generate_full_book no call is retried: a failed call is the last
\* client invocation of the request, no call is issued twice, no pause follows
\* the failure, the request ends at once and its response carries only success
\* and message.
C8_NoRetry ==
    req.endpoint = "generate-full-book" =>
        /\ \A k \in DOMAIN calls : k < Len(calls) => calls[k].ok
        /\ \A j, k \in DOMAIN calls :
              j < k => <<calls[j].prompt.kind, calls[j].prompt.number>>
                       # <<calls[k].prompt.kind, calls[k].prompt.number>>
        /\ exc # "None" =>
              /\ req_pc = "done"
              /\ pauses = Len(chapters)
              /\ resp = [success |-> FALSE, message |-> exc]

C8_Witness ==
    /\ req_pc = "done"
    /\ req.endpoint = "generate-full-book"
    /\ exc = "ProviderError"
    /\ Len(calls) = 4
    /\ Len(chapters) = 2
    /\ pauses = 2

\* C9: with configure_apis racing with generation, a generation call either
\* ends in an error response or was served by a fully installed client of the
\* provider the request names: a key was supplied for that provider, and the
\* key the call went out under is the key that client was installed under.
C9_NoSilentCorruption ==
    /\ \A k \in DOMAIN calls :
          calls[k].ok =>
              /\ calls[k].provider = calls[k].requested
              /\ calls[k].provider \in supplied
              /\ calls[k].key \in Keys
              /\ calls[k].key = calls[k].installed_key
    /\ req_pc = "done" =>
          \/ resp = [success |-> FALSE, message |-> exc] /\ exc # "None"
          \/ /\ resp.success
             /\ \A k \in DOMAIN calls : calls[k].ok /\ calls[k].provider = req.provider

====
